---- MODULE Spec2Model ----
(***************************************************************************)
(* A model of eamt22_evaluate.py: the attribute taxonomy, the guard        *)
(* predicates, the three detection rules, the prediction pipeline, the     *)
(* agreement evaluator and the F1 score calculator.                        *)
(*                                                                         *)
(* Text is modelled by strings; str.lower, str.split, ",".join and the     *)
(* regular expressions of the source are computed character by character.  *)
(* The module is ASCII, so the Polish letters of the source's literals are *)
(* written without their diacritics ("prosze" for the source's politeness  *)
(* marker, "panski", "panstwo", "twoj", and "s" for the clitic).           *)
(***************************************************************************)
EXTENDS Integers, Sequences, FiniteSets, TLC

VARIABLES sentence, english, ents, types, pc, ranInterlocutor, formal_result,
          label, batch, reverse_type, agreement, predictions, correct_answers,
          stats, base, appended

vars == <<sentence, english, ents, types, pc, ranInterlocutor, formal_result,
          label, batch, reverse_type, agreement, predictions, correct_answers,
          stats, base, appended>>

----------------------------------------------------------------------------
(* Strings.                                                                *)

UpperLetters == <<"A","B","C","D","E","F","G","H","I","J","K","L","M",
                  "N","O","P","Q","R","S","T","U","V","W","X","Y","Z">>
LowerLetters == <<"a","b","c","d","e","f","g","h","i","j","k","l","m",
                  "n","o","p","q","r","s","t","u","v","w","x","y","z">>

LowerChar(c) ==
    IF \E k \in 1..Len(UpperLetters) : UpperLetters[k] = c
    THEN LowerLetters[CHOOSE k \in 1..Len(UpperLetters) : UpperLetters[k] = c]
    ELSE c

RECURSIVE Lower(_)
Lower(s) ==
    IF Len(s) = 0 THEN ""
    ELSE LowerChar(SubSeq(s, 1, 1)) \o Lower(SubSeq(s, 2, Len(s)))

\* re.findall(p, s) is non-empty for a literal pattern p
Contains(s, p) ==
    \E k \in 1..(Len(s) - Len(p) + 1) : SubSeq(s, k, k + Len(p) - 1) = p

\* re.findall("(^| )" + p, s) is non-empty
ContainsAtWordStart(s, p) ==
    \/ SubSeq(s, 1, Len(p)) = p
    \/ Contains(s, " " \o p)

\* s.split(sep) for a one-character separator
RECURSIVE SplitFrom(_, _, _, _)
SplitFrom(s, sep, k, cur) ==
    IF k > Len(s) THEN <<cur>>
    ELSE IF SubSeq(s, k, k) = sep
         THEN <<cur>> \o SplitFrom(s, sep, k + 1, "")
         ELSE SplitFrom(s, sep, k + 1, cur \o SubSeq(s, k, k))

Split(s, sep) == SplitFrom(s, sep, 1, "")

\* sep.join(fields)
RECURSIVE Join(_, _)
Join(fields, sep) ==
    IF Len(fields) = 0 THEN ""
    ELSE IF Len(fields) = 1 THEN fields[1]
    ELSE fields[1] \o sep \o Join(Tail(fields), sep)

Range(f) == {f[k] : k \in DOMAIN f}

----------------------------------------------------------------------------
(* Attributes.                                                             *)

None == "None"

attribute_list == <<"SpGender", "IlGender", "IlNumber", "Formality">>

attribute_types ==
    [a \in Range(attribute_list) |->
        CASE a = "SpGender"  -> <<"<sp:feminine>", "<sp:masculine>">>
          [] a = "IlGender"  -> <<"<il:feminine>", "<il:masculine>", "<il:mixed>">>
          [] a = "IlNumber"  -> <<"<singular>", "<plural>">>
          [] a = "Formality" -> <<"<formal>", "<informal>">>]

type_list == UNION {Range(attribute_types[a]) : a \in Range(attribute_list)}

\* the map with one entry mistyped
reverse_map_plural_to_itself ==
    [m \in type_list \cup {""} |->
        CASE m = "<sp:feminine>"  -> "<sp:masculine>"
          [] m = "<sp:masculine>" -> "<sp:feminine>"
          [] m = "<il:feminine>"  -> "<il:masculine>"
          [] m = "<il:masculine>" -> "<il:feminine>"
          [] m = "<il:mixed>"     -> "<il:feminine>"
          [] m = "<singular>"     -> "<plural>"
          [] m = "<plural>"       -> "<plural>"
          [] m = "<formal>"       -> "<informal>"
          [] m = "<informal>"     -> "<formal>"
          [] m = ""               -> ""]

reverse_map ==
    [m \in type_list \cup {""} |->
        CASE m = "<sp:feminine>"  -> "<sp:masculine>"
          [] m = "<sp:masculine>" -> "<sp:feminine>"
          [] m = "<il:feminine>"  -> "<il:masculine>"
          [] m = "<il:masculine>" -> "<il:feminine>"
          [] m = "<il:mixed>"     -> "<il:feminine>"
          [] m = "<singular>"     -> "<plural>"
          [] m = "<plural>"       -> "<singular>"
          [] m = "<formal>"       -> "<informal>"
          [] m = "<informal>"     -> "<formal>"
          [] m = ""               -> ""]

\* What a call gives: the exception it raised ("" when it returned) and the
\* value it returned
Returned(v) == [raised |-> "", value |-> v]
Raised(e) == [raised |-> e, value |-> "None"]
Raises(r) == r.raised # ""

ValueError == "ValueError"
TypeError == "TypeError"
IndexError == "IndexError"
ZeroDivisionError == "ZeroDivisionError"

\* the first attribute, in dictionary order, whose types hold the marker
identify_from_type(attribute_type) ==
    IF \E k \in 1..Len(attribute_list) :
           attribute_type \in Range(attribute_types[attribute_list[k]])
    THEN Returned(attribute_list[
             CHOOSE k \in 1..Len(attribute_list) :
                 /\ attribute_type \in Range(attribute_types[attribute_list[k]])
                 /\ \A j \in 1..(k - 1) :
                        attribute_type \notin Range(attribute_types[attribute_list[j]])])
    ELSE Raised(ValueError)

\* dict.get(key, "") of a dictionary that holds every key: the stored value,
\* None included; the default is used for a missing key only
types_get(t, key) == IF key \in DOMAIN t THEN t[key] ELSE ""

\* ",".join raises TypeError on an item that is not a string
types_to_str(t) ==
    LET fields == [k \in 1..4 |-> types_get(t, attribute_list[k])]
    IN  IF \E k \in 1..4 : fields[k] = None THEN Raised(TypeError)
        ELSE Returned(Join(fields, ","))

initialise_types == [a \in Range(attribute_list) |-> None]

----------------------------------------------------------------------------
(* Tokens and sentences.  A token is a record of its surface form, lemma,  *)
(* part of speech, colon-joined feature string and dependency relation; in *)
(* a sentence each token also holds the position of its head (a root is    *)
(* its own head, as in the parser's documents).                            *)

Tok(o, l, p, f, d) == [orth |-> o, lemma |-> l, pos |-> p, feats |-> f, dep |-> d]

TProsze     == Tok("Prosze", "prosic", "VERB", "fin:sg:pri:imperf", "ROOT")
TProszeIntj == Tok("prosze", "prosze", "INTJ", "interj", "discourse:intj")
TPan        == Tok("pan", "pan", "NOUN", "subst:sg:nom:m1", "nsubj")
TPani       == Tok("Panie", "Pani", "NOUN", "subst:pl:nom:f", "vocative")
TPanBrev    == Tok("p", "pan", "X", "brev:pun", "nmod")
TPanski     == Tok("panski", "panski", "ADJ", "adj:sg:nom:m3:pos", "amod")
TPanstwo    == Tok("panstwo", "panstwo", "NOUN", "subst:pl:nom:m1", "nsubj")
TDet        == Tok("ten", "ten", "DET", "adj:sg:nom:m1:pos", "det")
TAppos      == Tok("Kowalski", "Kowalski", "PROPN", "subst:sg:nom:m1", "appos")
TSiadasz    == Tok("siadasz", "siadac", "VERB", "fin:sg:sec:imperf", "ROOT")
TTwoj       == Tok("Twoj", "Twoj", "DET", "adj:sg:nom:m3:pos", "amod")
TMila       == Tok("mila", "mily", "ADJ", "adj:sg:nom:f:pos", "xcomp:pred")
TAgltPri    == Tok("m", "byc", "AUX", "aglt:sg:pri:imperf:nwok", "aux:clitic")
TZrobila    == Tok("zrobila", "zrobic", "VERB", "praet:sg:f:perf", "ROOT")
TNiech      == Tok("niech", "niech", "PART", "qub", "advmod")
TComma      == Tok(",", ",", "PUNCT", "interp", "punct")
TSiada      == Tok("siada", "siadac", "VERB", "fin:sg:ter:imperf", "ROOT")

TJestem     == Tok("jestem", "byc", "AUX", "fin:sg:pri:imperf", "cop")
TJestes     == Tok("jestes", "byc", "AUX", "fin:sg:sec:imperf", "cop")
TAgltSec    == Tok("s", "byc", "AUX", "aglt:sg:sec:imperf:nwok", "aux:clitic")
TZrobil     == Tok("zrobil", "zrobic", "VERB", "praet:sg:m1:perf", "conj")
TLekarzem   == Tok("lekarzem", "lekarz", "NOUN", "subst:sg:inst:m1", "ROOT")
TLekarka    == Tok("lekarka", "lekarka", "NOUN", "subst:sg:nom:f", "ROOT")
TDzieckiem  == Tok("dzieckiem", "dziecko", "NOUN", "subst:sg:inst:n", "conj")
TOsoba      == Tok("Osoba", "Osoba", "NOUN", "subst:sg:inst:f", "ROOT")
TZmeczony   == Tok("zmeczony", "zmeczony", "ADJ", "adj:sg:nom:m1:pos", "conj")
TPrzed      == Tok("przed", "przed", "ADP", "prep:inst", "case")
TKim        == Tok("kim", "kto", "PRON", "subst:sg:inst:m1", "obl")

\* the tokens of the pipeline's sentences
PipelinePool ==
    {TProsze, TProszeIntj, TPan, TPani, TPanBrev, TPanski, TPanstwo, TDet,
     TAppos, TSiadasz, TTwoj, TMila, TAgltPri, TZrobila}

\* the tokens of the clauses the two gender rules are applied to: a first- or
\* second-person auxiliary and the head it depends on
ClauseAux == {TJestem, TJestes, TAgltPri, TAgltSec}
ClauseHeads == {TZrobila, TLekarzem, TLekarka, TDzieckiem, TZmeczony, TOsoba}

AllTokens ==
    PipelinePool \cup ClauseAux \cup ClauseHeads
        \cup {TNiech, TComma, TSiada, TZrobil, TPrzed, TKim}

MaxTokens == 2
MaxClauses == 2

WithHead(tok, h) ==
    [orth |-> tok.orth, lemma |-> tok.lemma, pos |-> tok.pos,
     feats |-> tok.feats, dep |-> tok.dep, head |-> h]

\* every token reaches a root (a token that is its own head)
RECURSIVE ReachesRoot(_, _, _)
ReachesRoot(heads, k, fuel) ==
    \/ heads[k] = k
    \/ fuel > 0 /\ ReachesRoot(heads, heads[k], fuel - 1)

IsForest(heads) == \A k \in DOMAIN heads : ReachesRoot(heads, k, Len(heads))

\* the sentences of n tokens of a pool, the heads a forest
IsSentenceOf(s, pool, n) ==
    \E toks \in [1..n -> pool] :
        \E heads \in {h \in [1..n -> 1..n] : IsForest(h)} :
            s = [k \in 1..n |-> WithHead(toks[k], heads[k])]

\* "Prosze, niech pan siada"
ExampleSentence ==
    <<WithHead(TProsze, 1), WithHead(TComma, 1), WithHead(TNiech, 5),
      WithHead(TPan, 5), WithHead(TSiada, 1)>>

\* "zrobilam" and "siadasz mila": a first-person clause whose head gives the
\* speaker's gender, then a second-person verb with a predicative adjective
SpeakerAndInterlocutorSentence ==
    <<WithHead(TZrobila, 1), WithHead(TAgltPri, 1), WithHead(TMila, 4),
      WithHead(TSiadasz, 4)>>

\* A clause: an auxiliary and its head (a root), the auxiliary before the head
\* ("AH"), after it ("HA"), before it with an adposition of the head between
\* ("APH"), or a second-person clitic after "kim" ("KAH").
Clause(shape, aux, head) ==
    CASE shape = "AH"  -> <<[t |-> aux, h |-> 2], [t |-> head, h |-> 2]>>
      [] shape = "HA"  -> <<[t |-> head, h |-> 1], [t |-> aux, h |-> 1]>>
      [] shape = "APH" -> <<[t |-> aux, h |-> 3], [t |-> TPrzed, h |-> 3],
                            [t |-> head, h |-> 3]>>
      [] shape = "KAH" -> <<[t |-> TKim, h |-> 3], [t |-> aux, h |-> 3],
                            [t |-> head, h |-> 3]>>

Clauses ==
    {Clause(shape, aux, head) :
        shape \in {"AH", "HA", "APH"}, aux \in ClauseAux, head \in ClauseHeads}
    \cup {Clause("KAH", TAgltSec, head) : head \in ClauseHeads}

\* the clauses one after the other, each head position moved by the clause's offset
RECURSIVE Concat(_, _)
Concat(cs, offset) ==
    IF Len(cs) = 0 THEN <<>>
    ELSE [k \in 1..Len(cs[1]) |-> WithHead(cs[1][k].t, cs[1][k].h + offset)]
             \o Concat(Tail(cs), offset + Len(cs[1]))

IsClauseSentence(s) ==
    \E n \in 1..MaxClauses : \E cs \in [1..n -> Clauses] : s = Concat(cs, 0)

EnglishTexts ==
    {"Please, sir, sit down", "Please sit down", "Sit down, you",
     "Finish the task", "The State will pay, madam"}

EntTexts == {"Kowalski", "Panie"}

----------------------------------------------------------------------------
(* Feature strings, lowercasing and the regular expressions of the rules.  *)

FeatStrings == {t.feats : t \in AllTokens}
Words == {t.orth : t \in AllTokens} \cup {t.lemma : t \in AllTokens}

\* token._.feats.split(":")
split_feats(f) == Range(Split(f, ":"))

\* re.findall(r"m[123]", feats)
has_m123(f) == Contains(f, "m1") \/ Contains(f, "m2") \/ Contains(f, "m3")

\* re.findall(r"sg|pl", feats): the matches in the order they occur
RECURSIVE findall_number(_, _)
findall_number(f, k) ==
    IF k + 1 > Len(f) THEN <<>>
    ELSE IF SubSeq(f, k, k + 1) \in {"sg", "pl"}
         THEN <<SubSeq(f, k, k + 1)>> \o findall_number(f, k + 2)
         ELSE findall_number(f, k + 1)

FeatSet == [f \in FeatStrings |-> split_feats(f)]
FeatMasc == [f \in FeatStrings |-> has_m123(f)]
FeatNumbers == [f \in FeatStrings |-> findall_number(f, 1)]
LowerOf == [w \in Words |-> Lower(w)]

\* data/stopwords: the exclusion list read at start-up
stopwords == {"osoba", "czlowiek"}

----------------------------------------------------------------------------
(* Guard predicates.  A token of a sentence is named by its position.      *)

title_pattern_anywhere ==
    {"ladies", "lady", "gentlemen", "gentleman", "lord", "master",
     "messieurs", "dames", "monsieur", "madame", "madam ", "ma'am"}

title_pattern_at_word_start ==
    {"sir", "mr ", "mr.", "mrs ", "mrs.", "ms ", "ms.", "herr"}

no_title(english_sentence) ==
    LET low == Lower(english_sentence)
    IN  ~ \/ \E p \in title_pattern_anywhere : Contains(low, p)
          \/ \E p \in title_pattern_at_word_start : ContainsAtWordStart(low, p)

\* the second alternative of the source's pattern is the backspace character
\* (the "\b" of a string that is not raw), which no text of the model holds
nation_pattern ==
    {"countr", "nation", "land", "state", "kingdom", "realm", "econom",
     "elsewhere", "rule"}

no_nation(english_sentence) ==
    ~ \E p \in nation_pattern : Contains(Lower(english_sentence), p)

\* re.findall(r"please|ask", english_sentence.lower())
mentions_please(english_sentence) ==
    \/ Contains(Lower(english_sentence), "please")
    \/ Contains(Lower(english_sentence), "ask")

NoTitle == [e \in EnglishTexts |-> no_title(e)]
NoNation == [e \in EnglishTexts |-> no_nation(e)]
MentionsPlease == [e \in EnglishTexts |-> mentions_please(e)]

no_det(s, i) ==
    ~ \E k \in 1..Len(s) : s[k].head = i /\ s[k].dep = "det"

no_appos(s, i) ==
    ~ \E k \in 1..Len(s) :
          /\ s[k].head = i
          /\ s[k].dep = "appos"
          /\ "gen" \notin FeatSet[s[k].feats]

\* range(i, j) is empty when the head does not follow the token
no_adp(parsed, i, j) ==
    ~ \E x \in i..(j - 1) : parsed[x].pos = "ADP" /\ parsed[x].head = j

gender_check(token, t, attribute) ==
    LET prefix == IF attribute = "IlGender" THEN "il" ELSE "sp"
        t1 == IF FeatMasc[token.feats]
              THEN [t EXCEPT ![attribute] = "<" \o prefix \o ":masculine>"]
              ELSE t
    IN  IF "f" \in FeatSet[token.feats]
        THEN [t1 EXCEPT ![attribute] = "<" \o prefix \o ":feminine>"]
        ELSE t1

----------------------------------------------------------------------------
(* check_speaker_gender.                                                   *)

\* the three head conditions under which the speaker rule reads a gender
speaker_verb_condition(s, i) ==
    /\ s[s[i].head].pos = "VERB"
    /\ s[i].dep \in {"aux:clitic", "aux", "aux:pass"}

speaker_noun_condition(s, i) ==
    /\ s[s[i].head].pos = "NOUN"
    /\ "inst" \in FeatSet[s[s[i].head].feats]
    /\ s[i].dep \in {"aux:clitic", "cop"}
    /\ no_adp(s, i, s[i].head)
    /\ LowerOf[s[s[i].head].lemma] \notin stopwords

speaker_adj_condition(s, i) ==
    /\ s[s[i].head].pos = "ADJ"
    /\ s[i].dep \in {"aux:clitic", "aux:pass", "cop", "obl:cmpr", "obl"}

\* the body of the loop for the token at position i
speaker_token(s, t, i) ==
    LET token_feats == FeatSet[s[i].feats]
        head == s[s[i].head]
    IN  IF head.pos \notin {"NOUN", "VERB", "ADJ"} THEN t
        ELSE IF ~("sg" \in token_feats /\ "pri" \in token_feats) THEN t
        ELSE LET t1 == IF speaker_verb_condition(s, i)
                       THEN gender_check(head, t, "SpGender") ELSE t
                 t2 == IF speaker_noun_condition(s, i)
                       THEN gender_check(head, t1, "SpGender") ELSE t1
             IN  IF speaker_adj_condition(s, i)
                 THEN gender_check(head, t2, "SpGender") ELSE t2

RECURSIVE speaker_loop(_, _, _)
speaker_loop(s, t, i) ==
    IF i > Len(s) THEN t
    ELSE speaker_loop(s, speaker_token(s, t, i), i + 1)

RECURSIVE speaker_loop_first_match(_, _, _)
speaker_loop_first_match(s, t, i) ==
    IF i > Len(s) THEN t
    ELSE IF speaker_token(s, t, i) # t THEN speaker_token(s, t, i)
    ELSE speaker_loop_first_match(s, t, i + 1)

check_speaker_gender_first_match(s, t) == speaker_loop_first_match(s, t, 1)

check_speaker_gender(s, t) == speaker_loop(s, t, 1)

----------------------------------------------------------------------------
(* check_interlocutor.                                                     *)

NumberMarker(number) == IF number = "sg" THEN "<singular>" ELSE "<plural>"

\* the head-based derivations applied to a second-person token
interlocutor_verb_condition(s, i) ==
    /\ s[s[i].head].pos = "VERB"
    /\ s[i].dep \in {"aux:clitic", "aux", "aux:pass"}

interlocutor_noun_condition(s, i) ==
    /\ s[s[i].head].pos = "NOUN"
    /\ s[i].dep \in {"aux:clitic", "cop"}
    /\ no_adp(s, i, s[i].head)
    /\ LowerOf[s[s[i].head].lemma] \notin stopwords

interlocutor_adj_condition(s, i) ==
    /\ s[s[i].head].pos = "ADJ"
    /\ s[i].dep \in {"aux:clitic", "aux:pass", "cop", "obl:cmpr", "obl"}

\* sentence[token.i - 1]: position -1 of the first token is the last token
previous_token(s, i) == IF i = 1 THEN s[Len(s)] ELSE s[i - 1]

\* "if number in head_feats:", the person left out
head_is_second_person_any_person(head_feats, number) == number \in head_feats

\* "if number in head_feats and "sec" in head_feats:"
head_is_second_person(head_feats, number) ==
    number \in head_feats /\ "sec" \in head_feats

\* one pass of the first loop over ("sg", "pl"): the token's head is second person
head_number_step(s, t, i, ner, number) ==
    LET token == s[i]
        token_feats == FeatSet[token.feats]
        head == s[token.head]
        head_feats == FeatSet[head.feats]
    IN  IF ~head_is_second_person(head_feats, number) THEN t
        ELSE IF head.pos \notin {"VERB", "PRON"} THEN t
        ELSE LET t1 == [t EXCEPT !["IlNumber"] = NumberMarker(number),
                                 !["Formality"] = "<informal>"]
                 t2 == IF /\ token.pos = "ADJ"
                          /\ number \in token_feats
                          /\ token.dep \in {"xcomp:pred", "nsubj", "conj", "iobj",
                                            "xcomp", "amod", "vocative", "obl:cmpr"}
                       THEN gender_check(token, t1, "IlGender") ELSE t1
             IN  IF /\ token.pos = "NOUN"
                    /\ \/ token.dep = "vocative"
                       \/ token.dep \in {"appos", "obj"} /\ "voc" \in token_feats
                    /\ token.orth \notin ner
                 THEN gender_check(token, t2, "IlGender") ELSE t2

\* the possessives writing Formality and leaving IlNumber alone
possessive_step_formality_only(s, t, i) ==
    IF LowerOf[s[i].lemma] \in {"twoj", "wasz"}
    THEN [t EXCEPT !["Formality"] = "<informal>"]
    ELSE t

possessive_step(s, t, i) ==
    LET lemma == LowerOf[s[i].lemma]
        t1 == IF lemma = "twoj"
              THEN [t EXCEPT !["IlNumber"] = "<singular>", !["Formality"] = "<informal>"]
              ELSE t
    IN  IF lemma = "wasz"
        THEN [t1 EXCEPT !["IlNumber"] = "<plural>", !["Formality"] = "<informal>"]
        ELSE t1

\* one pass of the second loop over ("sg", "pl"): the token is second person
token_number_fires(s, i, number) ==
    /\ "sec" \in FeatSet[s[i].feats]
    /\ number \in FeatSet[s[i].feats]
    /\ ~(s[i].orth = "s" /\ previous_token(s, i).orth \in {"czym", "kim"})

token_number_step(s, t, i, number) ==
    IF token_number_fires(s, i, number)
    THEN [t EXCEPT !["IlNumber"] = NumberMarker(number), !["Formality"] = "<informal>"]
    ELSE t

continue_check(s, i) ==
    token_number_fires(s, i, "sg") \/ token_number_fires(s, i, "pl")

head_gender_step(s, t, i) ==
    LET head == s[s[i].head]
        t1 == IF interlocutor_verb_condition(s, i)
              THEN gender_check(head, t, "IlGender") ELSE t
        t2 == IF interlocutor_noun_condition(s, i)
              THEN gender_check(head, t1, "IlGender") ELSE t1
    IN  IF interlocutor_adj_condition(s, i)
        THEN gender_check(head, t2, "IlGender") ELSE t2

\* the body of the loop for the token at position i
interlocutor_token(s, t, i, ner) ==
    LET t1 == head_number_step(s, t, i, ner, "sg")
        t2 == head_number_step(s, t1, i, ner, "pl")
        t3 == possessive_step(s, t2, i)
        t4 == token_number_step(s, t3, i, "sg")
        t5 == token_number_step(s, t4, i, "pl")
    IN  IF continue_check(s, i) THEN head_gender_step(s, t5, i) ELSE t5

RECURSIVE interlocutor_loop(_, _, _, _)
interlocutor_loop(s, t, i, ner) ==
    IF i > Len(s) THEN t
    ELSE interlocutor_loop(s, interlocutor_token(s, t, i, ner), i + 1, ner)

check_interlocutor(s, t, ner) == interlocutor_loop(s, t, 1, ner)

----------------------------------------------------------------------------
(* check_if_formal.  The result is the dictionary, the flag returned with  *)
(* it, and whether the scan raised instead of returning.                   *)

FormalResult(t, flag, err) == [types |-> t, formal |-> flag, raised |-> err]

\* re.findall(r"please|ask", ...) with the second alternative left out
politeness_fires_please_only(s, english_sentence, i) ==
    /\ LowerOf[s[i].orth] = "prosze"
    /\ ~Contains(Lower(english_sentence), "please")

politeness_fires(s, english_sentence, i) ==
    /\ LowerOf[s[i].orth] = "prosze"
    /\ ~MentionsPlease[english_sentence]

honorific_fires(s, english_sentence, i) ==
    /\ LowerOf[s[i].lemma] \in {"pan", "pani"}
    /\ no_det(s, i)
    /\ no_appos(s, i)
    /\ NoTitle[english_sentence]

possessive_fires(s, english_sentence, i) ==
    /\ ~honorific_fires(s, english_sentence, i)
    /\ LowerOf[s[i].lemma] = "panski"

plural_address_fires(s, english_sentence, i) ==
    /\ ~honorific_fires(s, english_sentence, i)
    /\ ~possessive_fires(s, english_sentence, i)
    /\ s[i].lemma = "panstwo"
    /\ no_det(s, i)
    /\ NoNation[english_sentence]

\* the body of the loop for the token at position i
formal_token(s, english_sentence, t, i) ==
    LET token == s[i]
        t1 == IF politeness_fires(s, english_sentence, i)
              THEN [t EXCEPT !["Formality"] = "<formal>"] ELSE t
    IN  IF honorific_fires(s, english_sentence, i)
        THEN LET t2 == gender_check(token, [t1 EXCEPT !["Formality"] = "<formal>"],
                                    "IlGender")
                 found == FeatNumbers[token.feats]
             IN  IF Len(found) = 0 THEN FormalResult(t2, FALSE, TRUE)
                 ELSE FormalResult([t2 EXCEPT !["IlNumber"] = NumberMarker(found[1])],
                                   TRUE, FALSE)
        ELSE IF possessive_fires(s, english_sentence, i)
        THEN FormalResult([t1 EXCEPT !["Formality"] = "<formal>",
                                     !["IlNumber"] = "<singular>",
                                     !["IlGender"] = "<il:masculine>"], TRUE, FALSE)
        ELSE IF plural_address_fires(s, english_sentence, i)
        THEN FormalResult([t1 EXCEPT !["Formality"] = "<formal>",
                                     !["IlNumber"] = "<plural>",
                                     !["IlGender"] = "<il:mixed>"], TRUE, FALSE)
        ELSE FormalResult(t1, FALSE, FALSE)

RECURSIVE formal_loop(_, _, _, _)
formal_loop(s, english_sentence, t, i) ==
    IF i > Len(s) THEN FormalResult(t, FALSE, FALSE)
    ELSE LET r == formal_token(s, english_sentence, t, i)
         IN  IF r.formal \/ r.raised THEN r
             ELSE formal_loop(s, english_sentence, r.types, i + 1)

\* the scan with "except IndexError: continue" around the body of the loop
RECURSIVE formal_loop_skipping_numberless(_, _, _, _)
formal_loop_skipping_numberless(s, english_sentence, t, i) ==
    IF i > Len(s) THEN FormalResult(t, FALSE, FALSE)
    ELSE IF formal_token(s, english_sentence, t, i).raised
         THEN formal_loop_skipping_numberless(s, english_sentence, t, i + 1)
    ELSE IF formal_token(s, english_sentence, t, i).formal
         THEN formal_token(s, english_sentence, t, i)
    ELSE formal_loop_skipping_numberless(
             s, english_sentence, formal_token(s, english_sentence, t, i).types,
             i + 1)

check_if_formal_skipping_numberless(s, english_sentence, t) ==
    formal_loop_skipping_numberless(s, english_sentence, t, 1)

check_if_formal(s, english_sentence, t) == formal_loop(s, english_sentence, t, 1)

----------------------------------------------------------------------------
(* predict_types.                                                          *)

returns_after_formal_never(sentence_is_formal) == FALSE

\* "if sentence_is_formal: return types"
returns_after_formal(sentence_is_formal) == sentence_is_formal

\* the steps after check_if_formal gave r
after_formal(s, r, ner) ==
    IF r.raised THEN Raised(IndexError)
    ELSE IF returns_after_formal(r.formal) THEN Returned(r.types)
    ELSE Returned(check_interlocutor(s, r.types, ner))

predict_types(s, english_sentence, ner) ==
    after_formal(s,
                 check_if_formal(s, english_sentence,
                                 check_speaker_gender(s, initialise_types)),
                 ner)

----------------------------------------------------------------------------
(* The pipeline, one sentence pair at a time: predict_types step by step,  *)
(* then annotate's serialisation of what it returned.                      *)

IsSentence(s) ==
    \/ \E n \in 0..MaxTokens : IsSentenceOf(s, PipelinePool, n)
    \/ s = ExampleSentence
    \/ s = SpeakerAndInterlocutorSentence

\* the entity texts of a sentence are texts of that sentence
EntsOf(s) == {n \in SUBSET EntTexts : \A x \in n : \E k \in 1..Len(s) : s[k].orth = x}

NotRun == Raised("not run")
NoResult == FormalResult(initialise_types, FALSE, FALSE)
NoStats == [true_positive |-> 0, false_positive |-> 0, false_negative |-> 0,
            true_negative |-> 0]

Idle ==
    /\ batch = <<>>
    /\ reverse_type = <<>>
    /\ agreement = NotRun
    /\ predictions = <<>>
    /\ correct_answers = <<>>
    /\ stats = NotRun
    /\ base = NotRun
    /\ appended = 0

Init ==
    /\ IsSentence(sentence)
    /\ english \in EnglishTexts
    /\ ents \in EntsOf(sentence)
    /\ types = initialise_types
    /\ pc = "start"
    /\ ranInterlocutor = FALSE
    /\ formal_result = NoResult
    /\ label = NotRun
    /\ Idle

CheckSpeakerGender ==
    /\ pc = "start"
    /\ types' = check_speaker_gender(sentence, types)
    /\ pc' = "speaker"
    /\ UNCHANGED <<sentence, english, ents, ranInterlocutor, formal_result, label,
                   batch, reverse_type, agreement, predictions, correct_answers,
                   stats, base, appended>>

CheckIfFormal ==
    /\ pc = "speaker"
    /\ LET r == check_if_formal(sentence, english, types)
       IN  /\ formal_result' = r
           /\ types' = r.types
           /\ pc' = IF r.raised THEN "raised"
                    ELSE IF returns_after_formal(r.formal) THEN "returned"
                    ELSE "interlocutor"
    /\ UNCHANGED <<sentence, english, ents, ranInterlocutor, label,
                   batch, reverse_type, agreement, predictions, correct_answers,
                   stats, base, appended>>

CheckInterlocutor ==
    /\ pc = "interlocutor"
    /\ types' = check_interlocutor(sentence, types, ents)
    /\ ranInterlocutor' = TRUE
    /\ pc' = "returned"
    /\ UNCHANGED <<sentence, english, ents, formal_result, label,
                   batch, reverse_type, agreement, predictions, correct_answers,
                   stats, base, appended>>

\* annotate: annotations.append(types_to_str(types))
TypesToStr ==
    /\ pc = "returned"
    /\ label' = types_to_str(types)
    /\ pc' = IF Raises(label') THEN "raised" ELSE "annotated"
    /\ UNCHANGED <<sentence, english, ents, types, ranInterlocutor, formal_result,
                   batch, reverse_type, agreement, predictions, correct_answers,
                   stats, base, appended>>

Next == CheckSpeakerGender \/ CheckIfFormal \/ CheckInterlocutor \/ TypesToStr

Spec == Init /\ [][Next]_vars

----------------------------------------------------------------------------
(* The two gender rules on their own, each applied to a fresh dictionary.  *)

InitRules ==
    /\ IsClauseSentence(sentence)
    /\ english = "Sit down, you"
    /\ ents = {}
    /\ types = initialise_types
    /\ pc \in {"start", "interlocutor"}
    /\ ranInterlocutor = FALSE
    /\ formal_result = NoResult
    /\ label = NotRun
    /\ Idle

NextRules == CheckSpeakerGender \/ CheckInterlocutor

SpecRules == InitRules /\ [][NextRules]_vars

----------------------------------------------------------------------------
(* calculate_type_agreement and verify_context.  A batch item holds the    *)
(* parsed hypothesis, its entity texts, the English sentence and the       *)
(* marker under test.                                                      *)

Item(s, ner, e, m) == [polish |-> s, ner |-> ner, english |-> e, marker |-> m]

\* the comparison of verify_context, given what its two calls gave
compare_slot(attribute, predicted, predicted_type) ==
    IF Raises(attribute) THEN Raised(attribute.raised)
    ELSE IF Raises(predicted) THEN Raised(predicted.raised)
    ELSE Returned(predicted.value[attribute.value] = predicted_type)

\* True or False, or the exception raised on the way
verify_context(s, ner, en_sentence, predicted_type) ==
    compare_slot(identify_from_type(predicted_type),
                 predict_types(s, en_sentence, ner), predicted_type)

\* np.sum(np.array(outcomes) | np.array([t_ in types[x] for t_ in markers]))
count_agreement_or(outcomes, markers, x) ==
    Cardinality({k \in DOMAIN outcomes :
                    outcomes[k].value \/ markers[k] \in Range(attribute_types[x])})

\* np.sum(np.array(outcomes) & np.array([t_ in types[x] for t_ in markers]))
count_agreement(outcomes, markers, x) ==
    Cardinality({k \in DOMAIN outcomes :
                    outcomes[k].value /\ markers[k] \in Range(attribute_types[x])})

reverse_types(attribute_type) ==
    [k \in DOMAIN attribute_type |-> reverse_map[attribute_type[k]]]

markers_of(b) == [k \in DOMAIN b |-> b[k].marker]

\* [verify_context(sentences[i], en_sentences[i], markers[i]) for i in ...]
outcomes_of(b, markers) ==
    [k \in DOMAIN b |->
        verify_context(b[k].polish, b[k].ner, b[k].english, markers[k])]

FirstRaised(outcomes) ==
    outcomes[CHOOSE k \in DOMAIN outcomes :
                 /\ Raises(outcomes[k])
                 /\ \A j \in 1..(k - 1) : ~Raises(outcomes[j])].raised

\* the two dictionaries, given the two lists of outcomes
aggregate(correct, incorrect, attribute_type, reversed) ==
    IF \E k \in DOMAIN correct : Raises(correct[k])
    THEN Raised(FirstRaised(correct))
    ELSE IF \E k \in DOMAIN incorrect : Raises(incorrect[k])
    THEN Raised(FirstRaised(incorrect))
    ELSE Returned(
             [correct |-> [x \in Range(attribute_list) |->
                              count_agreement(correct, attribute_type, x)],
              incorrect |-> [x \in Range(attribute_list) |->
                                count_agreement(incorrect, reversed, x)]])

calculate_type_agreement(b) ==
    aggregate(outcomes_of(b, markers_of(b)),
              outcomes_of(b, reverse_types(markers_of(b))),
              markers_of(b), reverse_types(markers_of(b)))

\* the hypotheses of the batches: what they are parsed to, and the English
AgreementPairs ==
    {<< <<WithHead(TAgltPri, 2), WithHead(TZrobila, 2)>>, "Sit down, you" >>,
     << <<WithHead(TSiadasz, 1), WithHead(TMila, 1)>>, "Sit down, you" >>,
     << <<WithHead(TPanstwo, 1)>>, "Sit down, you" >>,
     << <<WithHead(TPan, 1)>>, "Please sit down" >>,
     << <<WithHead(TPanBrev, 1)>>, "Please sit down" >>,
     << <<>>, "Finish the task" >>}

AgreementItems ==
    {Item(p[1], {}, p[2], m) : p \in AgreementPairs, m \in type_list \cup {""}}

MaxBatch == 2

InitAgreement ==
    /\ \E n \in 1..MaxBatch : batch \in [1..n -> AgreementItems]
    /\ reverse_type = <<>>
    /\ agreement = NotRun
    /\ pc = "start"
    /\ sentence = <<>>
    /\ english = "Sit down, you"
    /\ ents = {}
    /\ types = initialise_types
    /\ ranInterlocutor = FALSE
    /\ formal_result = NoResult
    /\ label = NotRun
    /\ predictions = <<>>
    /\ correct_answers = <<>>
    /\ stats = NotRun
    /\ base = NotRun
    /\ appended = 0

CalculateTypeAgreement ==
    /\ pc = "start"
    /\ reverse_type' = reverse_types(markers_of(batch))
    /\ agreement' = calculate_type_agreement(batch)
    /\ pc' = IF Raises(agreement') THEN "raised" ELSE "agreed"
    /\ UNCHANGED <<sentence, english, ents, types, ranInterlocutor, formal_result,
                   label, batch, predictions, correct_answers, stats, base, appended>>

NextAgreement == CalculateTypeAgreement

SpecAgreement == InitAgreement /\ [][NextAgreement]_vars

----------------------------------------------------------------------------
(* calculate_f1.  Precision, recall and F1 are kept as fractions.          *)

Fraction(n, d) == [num |-> n, den |-> d]

SameFraction(a, b) == a.num * b.den = b.num * a.den

\* what one field position adds to the counts, with a pair of empty fields
\* counted as a true negative
field_counts_empty_negative(prediction, correct_answer) ==
    [true_positive |->
        IF correct_answer = prediction /\ correct_answer # "" THEN 1 ELSE 0,
     false_negative |-> IF correct_answer # "" /\ prediction = "" THEN 1 ELSE 0,
     false_positive |-> IF correct_answer = "" /\ prediction # "" THEN 1 ELSE 0,
     true_negative |-> IF correct_answer = prediction /\ prediction = "" THEN 1 ELSE 0]

\* what one field position adds to the counts, with every differing field
\* counted as a false positive and a false negative
field_counts_mismatch_penalised(prediction, correct_answer) ==
    [true_positive |-> IF correct_answer = prediction THEN 1 ELSE 0,
     false_negative |->
        IF correct_answer # "" /\ prediction # correct_answer THEN 1 ELSE 0,
     false_positive |->
        IF prediction # "" /\ prediction # correct_answer THEN 1 ELSE 0,
     true_negative |-> 0]

\* what one field position adds to the counts
field_counts(prediction, correct_answer) ==
    [true_positive |->
        (IF correct_answer = prediction /\ prediction = "" THEN 1 ELSE 0)
        + (IF correct_answer = prediction /\ correct_answer # "" THEN 1 ELSE 0),
     false_negative |-> IF correct_answer # "" /\ prediction = "" THEN 1 ELSE 0,
     false_positive |-> IF correct_answer = "" /\ prediction # "" THEN 1 ELSE 0,
     true_negative |-> 0]

AddCounts(a, b) ==
    [true_positive |-> a.true_positive + b.true_positive,
     false_negative |-> a.false_negative + b.false_negative,
     false_positive |-> a.false_positive + b.false_positive,
     true_negative |-> a.true_negative + b.true_negative]

\* the inner loop: correct_answer[i] raises IndexError past the gold's fields
RECURSIVE fields_loop(_, _, _, _)
fields_loop(prediction, correct_answer, st, i) ==
    IF i > Len(prediction) THEN Returned(st)
    ELSE IF i > Len(correct_answer) THEN Raised(IndexError)
    ELSE fields_loop(prediction, correct_answer,
                     AddCounts(st, field_counts(prediction[i], correct_answer[i])),
                     i + 1)

\* the outer loop over zip(predictions, correct_answers)
RECURSIVE pairs_loop(_, _, _, _)
pairs_loop(preds, golds, st, k) ==
    IF k > Len(preds) \/ k > Len(golds) THEN Returned(st)
    ELSE LET r == fields_loop(Split(preds[k], ","), Split(golds[k], ","), st, 1)
         IN  IF Raises(r) THEN r ELSE pairs_loop(preds, golds, r.value, k + 1)

F1Threshold == 99

calculate_f1(preds, golds) ==
    LET counted == pairs_loop(preds, golds, NoStats, 1)
        st == counted.value
    IN  IF Raises(counted) THEN Raised(counted.raised)
        ELSE IF st.true_positive + st.false_positive = 0 THEN Raised(ZeroDivisionError)
        ELSE IF st.true_positive + st.false_negative = 0 THEN Raised(ZeroDivisionError)
        ELSE IF st.true_positive = 0 THEN Raised(ZeroDivisionError)
        ELSE LET precision == Fraction(100 * st.true_positive,
                                       st.true_positive + st.false_positive)
                 recall == Fraction(100 * st.true_positive,
                                    st.true_positive + st.false_negative)
                 f1 == Fraction(2 * precision.num * recall.num,
                                precision.num * recall.den
                                    + recall.num * precision.den)
             IN  Returned([stats |-> st, precision |-> precision, recall |-> recall,
                           f1 |-> f1, passed |-> f1.num > F1Threshold * f1.den])

LabelPool ==
    {",,,", "<sp:feminine>,,,", ",,,<formal>", ",,,<informal>",
     "<sp:feminine>,<il:mixed>,<plural>,<formal>", "<formal>"}

MaxPairs == 2
MaxAppended == 2

EmptyLabels(k) == [j \in 1..k |-> ",,,"]

InitF1 ==
    /\ \E n \in 0..MaxPairs :
           /\ predictions \in [1..n -> LabelPool]
           /\ correct_answers \in [1..n -> LabelPool]
    /\ stats = NotRun
    /\ base = NotRun
    /\ appended = 0
    /\ pc = "start"
    /\ sentence = <<>>
    /\ english = "Sit down, you"
    /\ ents = {}
    /\ types = initialise_types
    /\ ranInterlocutor = FALSE
    /\ formal_result = NoResult
    /\ label = NotRun
    /\ batch = <<>>
    /\ reverse_type = <<>>
    /\ agreement = NotRun

CalculateF1 ==
    /\ pc \in {"start", "extended"}
    /\ stats' = calculate_f1(predictions, correct_answers)
    /\ pc' = IF pc = "start" THEN "scored" ELSE "rescored"
    /\ UNCHANGED <<sentence, english, ents, types, ranInterlocutor, formal_result,
                   label, batch, reverse_type, agreement, predictions,
                   correct_answers, base, appended>>

\* the caller scores the same sequences again with all-empty pairs added
AppendEmptyPairs ==
    /\ pc = "scored"
    /\ \E k \in 1..MaxAppended :
           /\ predictions' = predictions \o EmptyLabels(k)
           /\ correct_answers' = correct_answers \o EmptyLabels(k)
           /\ appended' = k
    /\ base' = stats
    /\ pc' = "extended"
    /\ UNCHANGED <<sentence, english, ents, types, ranInterlocutor, formal_result,
                   label, batch, reverse_type, agreement, stats>>

NextF1 == CalculateF1 \/ AppendEmptyPairs

SpecF1 == InitF1 /\ [][NextF1]_vars

----------------------------------------------------------------------------
(* Properties of the taxonomy and of the agreement evaluator               *)
(* (SpecAgreement).                                                        *)

\* C1, as stated: for every marker of the taxonomy the opposite of the opposite
\* is the marker itself, and the empty marker is its own opposite.  Here on the
\* markers of a batch, whose opposites calculate_type_agreement has taken.
C1_OppositeIsInvolution ==
    \A k \in DOMAIN reverse_type :
        /\ reverse_map[reverse_type[k]] = batch[k].marker
        /\ batch[k].marker = "" => reverse_type[k] = ""

\* C1, amended: the opposite of the opposite is the marker itself for every
\* marker but <il:mixed>, whose opposite is <il:feminine> and whose opposite's
\* opposite is <il:masculine>; the empty marker is its own opposite.
C1_OppositeIsInvolutionExceptMixed ==
    \A k \in DOMAIN reverse_type :
        IF batch[k].marker = "<il:mixed>"
        THEN /\ reverse_type[k] = "<il:feminine>"
             /\ reverse_map[reverse_type[k]] = "<il:masculine>"
        ELSE /\ reverse_map[reverse_type[k]] = batch[k].marker
             /\ reverse_type[k] # batch[k].marker \/ batch[k].marker = ""
             /\ batch[k].marker = "" => reverse_type[k] = ""

C1_Witness ==
    /\ pc # "start"
    /\ \E k \in DOMAIN reverse_type : batch[k].marker = "<il:mixed>"
    /\ \E k \in DOMAIN reverse_type : batch[k].marker = "<plural>"

\* the slot the pipeline assigns for the marker of item k
AssignedSlot(k) ==
    predict_types(batch[k].polish, batch[k].english, batch[k].ner)
        .value[identify_from_type(batch[k].marker).value]

\* every item's marker is the value the pipeline assigns to the marker's slot,
\* and the markers are those of attribute a
AllAgree(a) ==
    \A k \in DOMAIN batch :
        /\ batch[k].marker \in Range(attribute_types[a])
        /\ AssignedSlot(k) = batch[k].marker

\* C5: for a batch of N items whose markers each equal the value the pipeline
\* assigns to the marker's slot, calculate_type_agreement reports correct = N
\* and incorrect = 0 in the bucket of the markers' attribute.
C5_AgreeingBatchCounts ==
    \A a \in Range(attribute_list) :
        (pc = "agreed" /\ AllAgree(a)) =>
            /\ agreement.value.correct[a] = Len(batch)
            /\ agreement.value.incorrect[a] = 0

C5_Witness ==
    /\ pc = "agreed"
    /\ Len(batch) >= 2
    /\ batch[1] # batch[2]
    /\ AllAgree("IlGender")
    /\ agreement.value.correct["IlGender"] = Len(batch)

----------------------------------------------------------------------------
(* Properties of the pipeline (Spec).                                      *)

\* predict_types has returned its dictionary
PredictReturned == pc = "returned" \/ label.raised # "not run"

\* check_if_formal has run
FormalDone == pc \notin {"start", "speaker"}

\* C2: types_to_str of any dictionary the pipeline returns gives four fields
\* separated by three commas, in the order SpGender, IlGender, IlNumber,
\* Formality, a field empty where the slot is unset; it never fails.
C2_SerializeFourFields ==
    label.raised # "not run" =>
        /\ ~Raises(label)
        /\ Len(Split(label.value, ",")) = 4
        /\ \A k \in 1..4 :
               Split(label.value, ",")[k] =
                   IF types[attribute_list[k]] = None THEN ""
                   ELSE types[attribute_list[k]]

\* a terminal condition (2, 3 or 4) of the formality rule matches at token i
Terminal(i) ==
    \/ honorific_fires(sentence, english, i)
    \/ possessive_fires(sentence, english, i)
    \/ plural_address_fires(sentence, english, i)

FirstTerminal == CHOOSE i \in 1..Len(sentence) :
                     Terminal(i) /\ \A j \in 1..(i - 1) : ~Terminal(j)

\* what the formality rule writes at a token its terminal condition matches
WrittenGender(i) ==
    IF honorific_fires(sentence, english, i)
    THEN IF "f" \in FeatSet[sentence[i].feats] THEN "<il:feminine>"
         ELSE IF FeatMasc[sentence[i].feats] THEN "<il:masculine>"
         ELSE None
    ELSE IF LowerOf[sentence[i].lemma] = "panski" THEN "<il:masculine>"
    ELSE "<il:mixed>"

WrittenNumber(i) ==
    IF honorific_fires(sentence, english, i)
    THEN NumberMarker(FeatNumbers[sentence[i].feats][1])
    ELSE IF LowerOf[sentence[i].lemma] = "panski" THEN "<singular>"
    ELSE "<plural>"

\* C3: once a terminal condition of the formality rule matches on a token, the
\* interlocutor rule is not run for the sentence, and the IlGender, IlNumber
\* and Formality that predict_types returns are those written at that token.
C3_FormalityIsTerminal ==
    /\ (\E i \in 1..Len(sentence) : Terminal(i)) => ~ranInterlocutor
    /\ (PredictReturned /\ \E i \in 1..Len(sentence) : Terminal(i)) =>
        /\ types["Formality"] = "<formal>"
        /\ types["IlGender"] = WrittenGender(FirstTerminal)
        /\ types["IlNumber"] = WrittenNumber(FirstTerminal)

C3_Witness ==
    /\ pc = "returned"
    /\ \E i \in 1..Len(sentence) :
           /\ Terminal(i)
           /\ \E j \in (i + 1)..Len(sentence) : "sec" \in FeatSet[sentence[j].feats]

\* the sentence has no second-person feature on a token or on a token's head,
\* no token that is first person singular, and no formal-address lemma
Unmarked ==
    \A i \in 1..Len(sentence) :
        /\ "sec" \notin FeatSet[sentence[i].feats]
        /\ "sec" \notin FeatSet[sentence[sentence[i].head].feats]
        /\ ~("sg" \in FeatSet[sentence[i].feats] /\ "pri" \in FeatSet[sentence[i].feats])
        /\ LowerOf[sentence[i].lemma] \notin {"pan", "pani", "panski", "panstwo"}

AllUnset == \A a \in Range(attribute_list) : types[a] = None

\* C4, as stated: for a sentence with no second-person feature, no
\* first-person-singular token and no formal-address lemma, predict_types
\* returns all four slots unset, whatever the surface forms, the other lemmas
\* and the English text.
C4_UnmarkedSentenceAllUnset == (PredictReturned /\ Unmarked) => AllUnset

\* no informal possessive lemma, and the politeness marker only where the
\* English text holds "please" or "ask"
NoPossessiveNoPoliteness ==
    \A i \in 1..Len(sentence) :
        /\ LowerOf[sentence[i].lemma] \notin {"twoj", "wasz"}
        /\ LowerOf[sentence[i].orth] = "prosze" =>
               \/ Contains(Lower(english), "please")
               \/ Contains(Lower(english), "ask")

\* C4, amended: ... and no token with the lemma of the informal possessives
\* (twoj, wasz), and no token with the surface form of the politeness marker
\* unless the English text holds "please" or "ask": then all four slots are
\* unset.
C4_UnmarkedSentenceAllUnsetAmended ==
    (PredictReturned /\ Unmarked /\ NoPossessiveNoPoliteness) => AllUnset

C4_Witness ==
    /\ pc = "returned"
    /\ ranInterlocutor
    /\ Unmarked
    /\ NoPossessiveNoPoliteness
    /\ \E i \in 1..Len(sentence) : LowerOf[sentence[i].orth] = "prosze"
    /\ \E i \in 1..Len(sentence) : "sg" \in FeatSet[sentence[i].feats]

PleaseOrAsk == Contains(Lower(english), "please") \/ Contains(Lower(english), "ask")

\* where the English text holds "please" or "ask", the formality rule leaves
\* Formality unset unless a terminal condition writes it
PolitenessGuarded ==
    (FormalDone /\ PleaseOrAsk /\ ~formal_result.formal /\ ~formal_result.raised)
        => formal_result.types["Formality"] = None

IsExample == sentence = ExampleSentence /\ english = "Please, sir, sit down"

\* C8, as stated: where the English text holds "please" or "ask" the politeness
\* marker never sets Formality; and on "Prosze, niech pan siada" with "Please,
\* sir, sit down" the honorific branch terminates the rule with <formal>.
C8_PleaseGuardAndHonorific ==
    /\ PolitenessGuarded
    /\ (FormalDone /\ IsExample) =>
           /\ formal_result.formal
           /\ formal_result.types["Formality"] = "<formal>"

\* C8, amended: ... and on the example the honorific branch is evaluated and
\* rejected by its title guard (the English text holds " sir"), so the rule
\* does not terminate and leaves Formality unset; on the same tokens with an
\* English text that holds "please" and no title ("Please sit down") it
\* terminates with <formal>.
C8_PleaseGuardAndTitleGuard ==
    /\ PolitenessGuarded
    /\ (FormalDone /\ IsExample) =>
           /\ ~formal_result.formal
           /\ ~formal_result.raised
           /\ formal_result.types["Formality"] = None
    /\ (FormalDone /\ sentence = ExampleSentence /\ english = "Please sit down") =>
           /\ formal_result.formal
           /\ formal_result.types["Formality"] = "<formal>"

C8_Witness == FormalDone /\ IsExample /\ pc = "interlocutor"

----------------------------------------------------------------------------
(* Properties of calculate_f1 (SpecF1).                                    *)

\* the field positions calculate_f1 compares: pair k, field i
Positions ==
    {<<k, i>> : k \in 1..Len(predictions), i \in 1..4} \cap
    {q \in (1..Len(predictions)) \X (1..4) :
        /\ q[2] <= Len(Split(predictions[q[1]], ","))
        /\ q[2] <= Len(Split(correct_answers[q[1]], ","))}

PredictionAt(q) == Split(predictions[q[1]], ",")[q[2]]
GoldAt(q) == Split(correct_answers[q[1]], ",")[q[2]]

\* both fields non-empty and different
Mismatched == {q \in Positions : PredictionAt(q) # "" /\ GoldAt(q) # ""
                                    /\ PredictionAt(q) # GoldAt(q)}
Spurious == {q \in Positions : PredictionAt(q) # "" /\ GoldAt(q) = ""}
Missed == {q \in Positions : PredictionAt(q) = "" /\ GoldAt(q) # ""}
Equal == {q \in Positions : PredictionAt(q) = GoldAt(q)}

Scored == pc = "scored" /\ ~Raises(stats)

\* C6, as stated: a field position where prediction and gold are both
\* non-empty and different adds exactly 1 to the false positives and 1 to the
\* false negatives, and nothing to the true positives.
C6_MismatchCountsTwice ==
    Scored =>
        /\ stats.value.stats.false_positive
               = Cardinality(Spurious) + Cardinality(Mismatched)
        /\ stats.value.stats.false_negative
               = Cardinality(Missed) + Cardinality(Mismatched)
        /\ stats.value.stats.true_positive = Cardinality(Equal)

\* C6, amended: such a field position adds nothing to the false positives,
\* nothing to the false negatives and nothing to the true positives.
C6_MismatchCountsNowhere ==
    Scored =>
        /\ stats.value.stats.false_positive = Cardinality(Spurious)
        /\ stats.value.stats.false_negative = Cardinality(Missed)
        /\ stats.value.stats.true_positive = Cardinality(Equal)

C6_Witness ==
    /\ Scored
    /\ Mismatched # {}
    /\ predictions = <<",,,<formal>">>
    /\ correct_answers = <<",,,<informal>">>

Rescored == pc = "rescored" /\ ~Raises(base)

\* C7, as stated: appending aligned pairs whose four fields are all empty in
\* prediction and gold leaves precision, recall and the pass/fail result as
\* they were.
C7_EmptyPairsChangeNothing ==
    Rescored =>
        /\ ~Raises(stats)
        /\ SameFraction(stats.value.precision, base.value.precision)
        /\ SameFraction(stats.value.recall, base.value.recall)
        /\ stats.value.passed = base.value.passed

\* a is greater than b
GreaterFraction(a, b) == a.num * b.den > b.num * a.den

\* C7, amended: appending k such pairs adds 4k to the true positives and
\* leaves the false positives and false negatives as they were; precision is
\* unchanged exactly when there is no false positive and recall exactly when
\* there is no false negative, and each is greater otherwise.
C7_EmptyPairsAddTruePositives ==
    Rescored =>
        /\ ~Raises(stats)
        /\ stats.value.stats.true_positive
               = base.value.stats.true_positive + 4 * appended
        /\ stats.value.stats.false_positive = base.value.stats.false_positive
        /\ stats.value.stats.false_negative = base.value.stats.false_negative
        /\ IF base.value.stats.false_positive = 0
           THEN SameFraction(stats.value.precision, base.value.precision)
           ELSE GreaterFraction(stats.value.precision, base.value.precision)
        /\ IF base.value.stats.false_negative = 0
           THEN SameFraction(stats.value.recall, base.value.recall)
           ELSE GreaterFraction(stats.value.recall, base.value.recall)

C7_Witness ==
    /\ Rescored
    /\ appended >= 1
    /\ base.value.stats.false_positive > 0
    /\ GreaterFraction(stats.value.precision, base.value.precision)

----------------------------------------------------------------------------
(* Properties of the two gender rules (SpecRules).                         *)

\* the speaker rule reads a gender off the head of token i
Qualifies(i) ==
    /\ "sg" \in FeatSet[sentence[i].feats]
    /\ "pri" \in FeatSet[sentence[i].feats]
    /\ \/ speaker_verb_condition(sentence, i)
       \/ speaker_noun_condition(sentence, i)
       \/ speaker_adj_condition(sentence, i)

\* the gender the features of a token give, None when they give none
GenderOf(tok, prefix) ==
    IF "f" \in FeatSet[tok.feats] THEN "<" \o prefix \o ":feminine>"
    ELSE IF FeatMasc[tok.feats] THEN "<" \o prefix \o ":masculine>"
    ELSE None

HeadGender(i) == GenderOf(sentence[sentence[i].head], "sp")

LastOf(S) == CHOOSE i \in S : \A j \in S : j <= i

Qualifying == {i \in 1..Len(sentence) : Qualifies(i)}
QualifyingGendered == {i \in Qualifying : HeadGender(i) # None}

SpeakerDone == pc = "speaker"

\* C9, as stated: when several tokens qualify, SpGender after the scan is the
\* gender read off the head of the last qualifying token.
C9_LastQualifyingWins ==
    (SpeakerDone /\ Cardinality(Qualifying) >= 2) =>
        types["SpGender"] = HeadGender(LastOf(Qualifying))

\* C9, amended: ... is the gender read off the head of the last qualifying
\* token whose head carries a masculine or feminine code; a qualifying token
\* whose head carries neither leaves the slot as it is (unset when no
\* qualifying token's head carries a gender).
C9_LastGenderedQualifyingWins ==
    (SpeakerDone /\ Cardinality(Qualifying) >= 2) =>
        types["SpGender"] =
            IF QualifyingGendered = {} THEN None
            ELSE HeadGender(LastOf(QualifyingGendered))

C9_Witness ==
    /\ SpeakerDone
    /\ Cardinality(QualifyingGendered) >= 2
    /\ \E i, j \in QualifyingGendered : HeadGender(i) # HeadGender(j)

\* the three head conditions of the speaker rule hold for token i
SpeakerConditions(i) ==
    \/ speaker_verb_condition(sentence, i)
    \/ speaker_noun_condition(sentence, i)
    \/ speaker_adj_condition(sentence, i)

SecondPerson == {i \in 1..Len(sentence) : continue_check(sentence, i)}

\* no token writes IlGender on its own account (as an adjective or a vocative
\* noun under a second-person head), so that IlGender can only come from a head
VocativeBranchSilent ==
    \A i \in 1..Len(sentence) : \A number \in {"sg", "pl"} :
        head_number_step(sentence, initialise_types, i, ents, number)["IlGender"]
            = None

\* the second-person tokens for which the speaker rule's conditions hold and
\* whose head carries a gender
SpeakerLikeGendered ==
    {i \in SecondPerson : /\ SpeakerConditions(i)
                          /\ GenderOf(sentence[sentence[i].head], "il") # None}

----------------------------------------------------------------------------
(* The honorific without a number.                                         *)

\* token i has lemma pan/pani and passes the three guards, and its features
\* hold neither "sg" nor "pl"
Numberless(i) ==
    /\ honorific_fires(sentence, english, i)
    /\ FeatNumbers[sentence[i].feats] = <<>>

\* the scan of the formality rule reaches a numberless honorific: no token
\* before it matches a terminal condition
ReachesNumberless ==
    \E i \in 1..Len(sentence) :
        Numberless(i) /\ \A j \in 1..(i - 1) : ~Terminal(j)

\* C11: when the scan reaches a token with lemma pan/pani that passes the
\* three guards and whose features mark neither singular nor plural,
\* predict_types aborts with an error and returns nothing: the token is not
\* skipped, no later token and no interlocutor rule runs (IlNumber is never
\* written), no dictionary is returned and none is serialised.
C11_NumberlessHonorificAborts ==
    (FormalDone /\ ReachesNumberless) =>
        /\ pc = "raised"
        /\ formal_result.raised
        /\ ~formal_result.formal
        /\ ~ranInterlocutor
        /\ types["IlNumber"] = None
        /\ label = NotRun
        /\ after_formal(sentence, formal_result, ents) = Raised(IndexError)

C11_Witness ==
    /\ pc = "raised"
    /\ \E i \in 1..Len(sentence) :
           /\ Numberless(i)
           /\ \A j \in 1..(i - 1) : ~Terminal(j)
           /\ \E j \in (i + 1)..Len(sentence) :
                  \/ Terminal(j) /\ ~Numberless(j)
                  \/ "sec" \in FeatSet[sentence[j].feats]

----------------------------------------------------------------------------
(* The dictionaries predict_types returns.                                 *)

\* predict_types has returned the dictionary in types
Returns == pc \in {"returned", "annotated"} \/ (pc = "raised" /\ Raises(label))

\* each slot is unset or a marker of its own attribute
SlotsWellTyped ==
    \A a \in Range(attribute_list) :
        types[a] = None \/ types[a] \in Range(attribute_types[a])

\* C12: in every dictionary predict_types returns each slot is unset or a
\* marker of its own attribute; IlGender set implies IlNumber and Formality
\* set; Formality <informal> implies IlNumber set; IlGender <il:mixed> comes
\* only with IlNumber <plural> and Formality <formal>; and once the speaker
\* rule has run, SpGender stays what that rule wrote.
C12_ReturnedAttributeSet ==
    /\ Returns =>
        /\ SlotsWellTyped
        /\ types["IlGender"] # None =>
               types["IlNumber"] # None /\ types["Formality"] # None
        /\ types["Formality"] = "<informal>" => types["IlNumber"] # None
        /\ types["IlGender"] = "<il:mixed>" =>
               types["IlNumber"] = "<plural>" /\ types["Formality"] = "<formal>"
    /\ pc # "start" =>
        types["SpGender"] = check_speaker_gender(sentence, initialise_types)["SpGender"]

C12_Witness ==
    /\ pc = "returned"
    /\ ranInterlocutor
    /\ types["SpGender"] # None
    /\ types["IlGender"] # None
    /\ types["IlNumber"] # None
    /\ types["Formality"] # None

====
